---- MODULE Spec2Model ----
(***************************************************************************)
(* Model of the neutrino beam simulation: the engine loop of               *)
(* physics_engine.simulation_process, the particles it owns                *)
(* (physics_engine.Neutrino, vector.Vector2D), the control queue param_q   *)
(* it drains, the frame queue data_q it publishes to, the renderer         *)
(* callback visualizer.update that reads data_q, and the session script    *)
(* simulation_app.py that starts the two processes and puts the control    *)
(* messages.                                                               *)
(*                                                                         *)
(* Numbers.  The program computes in float64; the model computes in fixed  *)
(* point on 32-bit integers:                                               *)
(*   cos/sin of the beam angle   1/TrigScale                               *)
(*   velocity                    1/VelScale px per second                  *)
(*   time step dt                milliseconds (DtMillis)                   *)
(*   position, distance          1/PosScale px  (PosScale = VelScale*1000) *)
(*   energy                      MeV                                       *)
(*   oscillation phase, and the                                            *)
(*   cosine and sine of it       1/PhaseScale (rad)                        *)
(*   flavor probability          1/ProbScale                               *)
(* The beam angles of the model are 0 and +-atan(237/3116) (0.0759 rad):   *)
(* 3116^2 + 237^2 = 3125^2 and 3125 = 5^5, so cosine, sine, velocity,      *)
(* position and path length are finite decimals and the model's values are *)
(* the program's up to the rounding of float64 (1e-13).  The flavor        *)
(* probabilities are those of the program to within one unit of ProbScale. *)
(*                                                                         *)
(* A particle of the beam advances 3.2 px or 3.190784 px in x per tick     *)
(* from x = 10, and 840 is a multiple of neither: the test of the exit at  *)
(* line 146 is not met at x = 850 by the particles of SpecBeam.  SpecCull  *)
(* applies the step and the test to particles placed before the exit.      *)
(*                                                                         *)
(* Queues.  param_q and data_q are multiprocessing.Queue objects: put      *)
(* hands the item to the queue's feeder thread and returns, the thread     *)
(* writes it to the pipe later, and get_nowait raises queue.Empty when the *)
(* pipe holds nothing, whatever was put.  The model keeps, for each queue, *)
(* the items put and not yet taken, oldest first, and how many of them     *)
(* have arrived in the pipe.                                               *)
(***************************************************************************)
EXTENDS Integers, Sequences, FiniteSets, TLC

(***************************************************************************)
(* Bounds of the model                                                     *)
(***************************************************************************)
\* ticks explored by Spec (control-rich, short horizon)
MaxTick == 2
\* ticks explored by SpecBeam (long horizon)
RunTicks == 270
\* control messages put within one loop iteration, in Spec and in SpecUI
MaxQueue == 2
\* the same in SpecBeam
BeamQueue == 1
\* snapshots the renderer may leave unread before the model stops the engine,
\* and snapshots that reach one call of the renderer's update(), in Spec and
\* in SpecUI
MaxUnread == 2
\* the same in SpecBeam
BeamUnread == 1
\* places before the exit, a tenth of a pixel apart, of the particle of
\* SpecCull
CullPlaces == 20
\* button presses explored by SpecUI
MaxPresses == 3

(***************************************************************************)
(* Program constants                                                       *)
(***************************************************************************)
C_LIGHT_SIM == 200
\* DELTA_M2_31 = 2.51e-3, in units of 1e-5 eV^2
DELTA_M2_31 == 251
\* the literal 1.27 of the phase formula, in hundredths
PhaseCoeff == 127
\* scale_factor of the phase formula
scale_factor == 10000
\* dt = 0.016 s
DtMillis == 16
DefaultBeamEnergy == 500
matter_start_x == 400
matter_width == 100
MaxPopulation == 150
EmissionInterval == 5
StartX == 10
ExitX == 850
MarkerSize == 6

(***************************************************************************)
(* Fixed-point resolutions                                                 *)
(***************************************************************************)
TrigScale == 100000
VelScale == 1000
PosScale == VelScale * 1000
\* ProbScale is ProbRoot squared
ProbRoot == 10000
ProbScale == ProbRoot * ProbRoot
\* the oscillation phase, its cosine and its sine are kept in 1/PhaseScale
PhaseScale == 1000000000
\* pi/4 = 0.785398163397448 in 1/PhaseScale rad is
\* QuarterPi + QuarterPiExcess / 100000
QuarterPi == 785398163
QuarterPiExcess == 39745
\* density_potential is kept in 1/DensityScale
DensityScale == 10

Px(n) == n * PosScale

(***************************************************************************)
(* vector.Vector2D                                                         *)
(***************************************************************************)
Vector2D(x, y) == [x |-> x, y |-> y]

Abs(n) == IF n < 0 THEN 0 - n ELSE n

\* a / b rounded to the nearest integer, halves upwards (b > 0)
RoundDiv(a, b) == (2 * a + b) \div (2 * b)

\* x ** 2 for 0 <= x < 1000000, as <<h, l>> with x * x = h * 1000000 + l
Square(x) ==
    LET a == x \div 1000
        b == x % 1000
        m == 2 * a * b * 1000 + b * b
    IN  <<a * a + m \div 1000000, m % 1000000>>

\* the sum of two such pairs
WideAdd(s, t) ==
    <<s[1] + t[1] + (s[2] + t[2]) \div 1000000, (s[2] + t[2]) % 1000000>>

\* floor((s[1] * 1000000 + s[2]) / x) for 0 < x <= 2000000, by long division
WideDiv(s, x) ==
    LET t1 == (s[1] % x) * 1000 + s[2] \div 1000
        t2 == (t1 % x) * 1000 + (s[2] % 1000)
    IN  (s[1] \div x) * 1000000 + (t1 \div x) * 1000 + t2 \div x

\* floor of the square root of the pair s, by Newton's iteration from above
RECURSIVE SqrtIter(_, _)
SqrtIter(s, x) ==
    LET y == (x + WideDiv(s, x)) \div 2
    IN  IF y >= x THEN x ELSE SqrtIter(s, y)

\* math.sqrt of the pair s, rounded to the nearest unit; x0 is at or above
\* the root
Sqrt(s, x0) ==
    IF x0 = 0 THEN 0
    ELSE LET r == SqrtIter(s, x0)
             rr == Square(r)
         IN  IF (s[1] - rr[1]) * 1000000 + s[2] - rr[2] > r THEN r + 1 ELSE r

\* math.sqrt(self.x**2 + self.y**2)
magnitude(v) ==
    Sqrt(WideAdd(Square(Abs(v.x)), Square(Abs(v.y))), Abs(v.x) + Abs(v.y))

\* line 24 with the beam pointing to the left
ScaleToVelocityBackward(d) ==
    Vector2D(0 - RoundDiv(d.x * C_LIGHT_SIM, TrigScale \div VelScale),
             RoundDiv(d.y * C_LIGHT_SIM, TrigScale \div VelScale))

\* Vector2D(cos, sin) * C_LIGHT_SIM, from 1/TrigScale to 1/VelScale px/s
ScaleToVelocity(d) ==
    Vector2D(RoundDiv(d.x * C_LIGHT_SIM, TrigScale \div VelScale),
             RoundDiv(d.y * C_LIGHT_SIM, TrigScale \div VelScale))

(***************************************************************************)
(* physics_engine.Neutrino                                                 *)
(***************************************************************************)
\* Neutrino.__init__ raises: a flavor other than these two leaves self.state
\* unassigned and line 36 raises AttributeError
NeutrinoRaises(flavor_init) == flavor_init \notin {"electron", "muon"}

\* lines 31-36: self.probs for the flavors that do not raise
InitialProbs(flavor_init) ==
    IF flavor_init = "electron" THEN <<ProbScale, 0, 0>>
    ELSE <<0, ProbScale, 0>>

\* Neutrino.__init__ when it does not raise; dir is the unit vector (cos(angle), sin(angle)) of the
\* angle drawn in the constructor
Neutrino(p_id, position, energy_mev, flavor_init, dir) ==
    [id |-> p_id,
     position |-> position,
     velocity |-> ScaleToVelocity(dir),
     energy |-> energy_mev,
     distance_traveled |-> 0,
     probs |-> InitialProbs(flavor_init)]

\* One doubling step of MulDivMod: from r, the result for m \div 2, to the
\* result for m
MulDivStep(r, a, bit, d, p) ==
    LET rem == 2 * r.rem + bit * (a % d)
        q   == ((2 * r.q) % p) + bit * ((a \div d) % p) + rem \div d
    IN  [k   |-> 2 * r.k + (2 * r.q) \div p + bit * ((a \div d) \div p)
                   + q \div p,
         q   |-> q % p,
         rem |-> rem % d]

\* floor(a * m / d) as k * p + q with 0 <= q < p, and the remainder of the
\* division, by doubling over the bits of m so that no intermediate value
\* leaves 32 bits
RECURSIVE MulDivMod(_, _, _, _)
MulDivMod(a, m, d, p) ==
    IF m = 0 THEN [k |-> 0, q |-> 0, rem |-> 0]
    ELSE MulDivStep(MulDivMod(a, m \div 2, d, p), a, m % 2, d, p)

\* floor(a * m / d) for a < 2^31, m < 1000000 and d < 2000000, on limbs of
\* three decimal digits, as <<h, l>>: the quotient is h * 1000000 + l
MulDivLimbs(a, m, d) ==
    LET l0  == (a % 1000) * m
        l1  == ((a \div 1000) % 1000) * m + l0 \div 1000
        top == (a \div 1000000) * m + l1 \div 1000
        t1  == (top % d) * 1000 + (l1 % 1000)
        t0  == (t1 % d) * 1000 + (l0 % 1000)
    IN  <<top \div d, (t1 \div d) * 1000 + t0 \div d>>

\* h * 1000000 + l as k * p + q with 0 <= q < p, for 1000000 < p and
\* h < HighLimit
HighLimit == 1700000
SplitLimbs(h, l, p) ==
    LET c  == p \div 1000000 + 1
        k0 == h \div c
        r  == k0 * (c * 1000000 - p) + (h % c) * 1000000 + l
    IN  [k |-> k0 + r \div p, q |-> r % p]

\* arg_atm = (1.27 * DELTA_M2_31 * distance_traveled * scale_factor) / energy
\* in 1/PhaseScale rad, as [k, q]: arg_atm = k * QuarterPi + q.  With the
\* distance in 1/PosScale px, 1.27 = PhaseCoeff / 100 and DELTA_M2_31 in
\* 1e-5 the powers of ten cancel:
\* PhaseScale * scale_factor = PosScale * 100 * 100000.
ArgAtm(distance, energy) ==
    LET w == MulDivLimbs(distance, PhaseCoeff * DELTA_M2_31, energy)
        r == MulDivMod(distance, PhaseCoeff * DELTA_M2_31, energy, QuarterPi)
    IN  IF w[1] < HighLimit
        THEN SplitLimbs(w[1], w[2], QuarterPi)
        ELSE [k |-> r.k, q |-> r.q]

\* x * y / PhaseScale rounded, for 0 <= x, y <= PhaseScale, on limbs of
\* three decimal digits
Mul9(x, y) ==
    LET x2 == x \div 1000000
        x1 == (x \div 1000) % 1000
        x0 == x % 1000
        y2 == y \div 1000000
        y1 == (y \div 1000) % 1000
        y0 == y % 1000
        c3 == x1 * y0 + x0 * y1 + (x0 * y0) \div 1000
        c6 == x2 * y0 + x1 * y1 + x0 * y2 + c3 \div 1000
    IN  x2 * y2 * 1000 + x2 * y1 + x1 * y2 + (c6 + 500) \div 1000

\* 1 - q * t / d, one step of Horner's scheme for the series of cos and sin
Horner(q, t, d) == PhaseScale - RoundDiv(Mul9(q, t), d)

\* math.cos(v) in 1/PhaseScale for v in [0, pi/4], v in 1/PhaseScale rad:
\* the series to the term v^12 / 12!
CosSmall(v) ==
    LET q == Mul9(v, v)
    IN  Horner(q, Horner(q, Horner(q, Horner(q, Horner(q,
            Horner(q, PhaseScale, 132), 90), 56), 30), 12), 2)

\* math.sin(v) in 1/PhaseScale for v in [0, pi/4]: the series to the term
\* v^13 / 13!
SinSmall(v) ==
    LET q == Mul9(v, v)
    IN  Mul9(v, Horner(q, Horner(q, Horner(q, Horner(q, Horner(q,
            Horner(q, PhaseScale, 156), 110), 72), 42), 20), 6))

\* arg as [o, r]: arg = o * pi/4 + r with 0 <= r < pi/4; pi/4 is larger
\* than QuarterPi by QuarterPiExcess / 100000
Octant(arg) ==
    LET corr == (arg.k * QuarterPiExcess) \div 100000
    IN  IF arg.q >= corr
        THEN [o |-> arg.k, r |-> arg.q - corr]
        ELSE [o |-> arg.k - 1, r |-> arg.q - corr + QuarterPi]

\* abs(math.cos(arg)) in 1/PhaseScale
AbsCos(arg) ==
    LET t == Octant(arg)
        w == QuarterPi - t.r
    IN  CASE t.o % 4 = 0 -> CosSmall(t.r)
          [] t.o % 4 = 1 -> SinSmall(w)
          [] t.o % 4 = 2 -> SinSmall(t.r)
          [] OTHER       -> CosSmall(w)

\* abs(math.sin(arg)) in 1/PhaseScale
AbsSin(arg) ==
    LET t == Octant(arg)
        w == QuarterPi - t.r
    IN  CASE t.o % 4 = 0 -> SinSmall(t.r)
          [] t.o % 4 = 1 -> CosSmall(w)
          [] t.o % 4 = 2 -> CosSmall(t.r)
          [] OTHER       -> SinSmall(w)

\* math.cos(arg)**2 and math.sin(arg)**2 in 1/ProbScale
CosSquared(arg) ==
    LET c == AbsCos(arg)
    IN  RoundDiv(Mul9(c, c), PhaseScale \div ProbScale)
SinSquared(arg) ==
    LET s == AbsSin(arg)
    IN  RoundDiv(Mul9(s, s), PhaseScale \div ProbScale)

\* the phase-based flavor probabilities of lines 75-77
PhaseProbs(distance, energy) ==
    LET arg == ArgAtm(distance, energy)
    IN  <<CosSquared(arg), SinSquared(arg), 0>>

\* Neutrino.propagate raises: the division by a zero energy gives an
\* infinite phase and math.sin raises ValueError
PropagateRaises(nu) == nu.energy = 0

\* lines 43-46 with `=` for `+=` on the path length
AdvanceOverwrites(nu) ==
    LET step_dist == magnitude(nu.velocity) * DtMillis
    IN  [nu EXCEPT !.distance_traveled = step_dist,
                   !.position = Vector2D(@.x + nu.velocity.x * DtMillis,
                                         @.y + nu.velocity.y * DtMillis)]

\* the part of Neutrino.propagate that runs before the phase is computed
Advance(nu) ==
    LET step_dist == magnitude(nu.velocity) * DtMillis
    IN  [nu EXCEPT !.distance_traveled = @ + step_dist,
                   !.position = Vector2D(@.x + nu.velocity.x * DtMillis,
                                         @.y + nu.velocity.y * DtMillis)]

\* Neutrino.propagate(dt, None, density_potential) when it does not raise;
\* density_potential in 1/DensityScale, line 81 tests it against 0.5
propagate(nu, density_potential) ==
    LET moved == Advance(nu)
        phase == PhaseProbs(moved.distance_traveled, moved.energy)
    IN  [moved EXCEPT !.probs =
            IF 2 * density_potential > DensityScale
            THEN <<ProbScale, 0, phase[3]>>
            ELSE phase]

(***************************************************************************)
(* Control messages (param_q).  A message is described by what the drain   *)
(* loop can observe of it:                                                 *)
(*   kind     "dict"  a mapping                                            *)
(*            "none"  a value `in` cannot be applied to (None, a number)   *)
(*   command  "absent", or the value under 'command'                       *)
(*   params   "absent", "map" (a mapping) or "notmap" (None, a number)     *)
(*   beam     "absent", "num" (float() accepts it) or "bad" (it does not)  *)
(*   value    the beam energy in MeV when beam = "num"                     *)
(***************************************************************************)
Message(kind, command, params, beam, value) ==
    [kind |-> kind, command |-> command, params |-> params,
     beam |-> beam, value |-> value]

START      == Message("dict", "START", "absent", "absent", 0)
STOP       == Message("dict", "STOP", "absent", "absent", 0)
BeamMsg(e) == Message("dict", "absent", "map", "num", e)
\* {'command': 'RESET'}
UnknownCmd == Message("dict", "RESET", "absent", "absent", 0)
\* {}
EmptyDict  == Message("dict", "absent", "absent", "absent", 0)
\* None
NotMapping == Message("none", "absent", "absent", "absent", 0)
\* {'params': None}
ParamsNotMap == Message("dict", "absent", "notmap", "absent", 0)
\* {'params': {'beam_energy': 'high'}}
BadBeam    == Message("dict", "absent", "map", "bad", 0)

\* beam energies the environment sends
BeamValues == {0, 100}

WellFormedMsgs == {START, STOP} \cup {BeamMsg(e) : e \in BeamValues}
MalformedMsgs ==
    {UnknownCmd, EmptyDict, NotMapping, ParamsNotMap, BadBeam}
Msgs == WellFormedMsgs \cup MalformedMsgs

\* lines 109-111 without the STOP branch
ApplyCommandNoStop(msg, run) ==
    IF msg.kind = "dict" /\ msg.command = "START" THEN TRUE ELSE run

\* lines 109-111: the effect of the message on running
ApplyCommand(msg, run) ==
    IF msg.kind = "dict" /\ msg.command = "START" THEN TRUE
    ELSE IF msg.kind = "dict" /\ msg.command = "STOP" THEN FALSE
    ELSE run

\* lines 112-114 with the value read and not assigned
ApplyParamsIgnores(msg, energy) == energy

\* lines 112-114: the effect of the message on energy_beam
ApplyParams(msg, energy) ==
    IF msg.kind = "dict" /\ msg.params = "map" /\ msg.beam = "num"
    THEN msg.value
    ELSE energy

\* lines 109-114 raise TypeError or ValueError, which only the outer
\* `except Exception` catches
HandleRaises(msg) ==
    \/ msg.kind = "none"
    \/ msg.kind = "dict" /\ msg.params = "notmap"
    \/ msg.kind = "dict" /\ msg.params = "map" /\ msg.beam = "bad"

(***************************************************************************)
(* The random draws of one emission (np.random): start y in px, the        *)
(* standard-normal deviate z of the energy, the unit vector of the angle.  *)
(* The generator is a stream of such draws; its state is the position in   *)
(* the stream.                                                             *)
(***************************************************************************)
Stream ==
    << [y |-> 300, z |-> 0,  dir |-> Vector2D(100000, 0)],
       [y |-> 250, z |-> -1, dir |-> Vector2D(99712, 7584)],
       [y |-> 349, z |-> 1,  dir |-> Vector2D(99712, -7584)],
       [y |-> 275, z |-> 1,  dir |-> Vector2D(100000, 0)] >>
\* the positions of the stream at which a run of the beam starts
Seeds == {0, 2}

\* np.random.normal(energy_beam, energy_beam * 0.05) for the deviate z
Normal(mu, z) == mu + ((mu * 5) \div 100) * z

(***************************************************************************)
(* The steps of one running tick                                           *)
(***************************************************************************)
\* line 123 with `or` for `and`
EmitGuardOr(ns, t) == Len(ns) < MaxPopulation \/ t % EmissionInterval = 0

\* line 123 without the test of the tick
EmitGuardNoInterval(ns, t) == Len(ns) < MaxPopulation

\* line 123
EmitGuard(ns, t) == Len(ns) < MaxPopulation /\ t % EmissionInterval = 0

\* lines 128-129 with the counter incremented before it is used
EmittedOffByOne(id, energy, draw) ==
    Neutrino(id + 1, Vector2D(Px(StartX), Px(draw.y)),
             Normal(energy, draw.z), "electron", draw.dir)

\* lines 125-128 with every particle given id 0
EmittedSameId(id, energy, draw) ==
    Neutrino(0, Vector2D(Px(StartX), Px(draw.y)),
             Normal(energy, draw.z), "electron", draw.dir)

\* lines 125-128
Emitted(id, energy, draw) ==
    Neutrino(id, Vector2D(Px(StartX), Px(draw.y)),
             Normal(energy, draw.z), "electron", draw.dir)

\* lines 138-140 without the far edge of the region
DensityNoEnd(nu) ==
    IF Px(matter_start_x) < nu.position.x THEN DensityScale ELSE 0

\* lines 138-140, at the particle's position before the step
Density(nu) ==
    IF Px(matter_start_x) < nu.position.x
       /\ nu.position.x < Px(matter_start_x + matter_width)
    THEN DensityScale ELSE 0

\* line 146, at the particle's position after the step
Survives(nu) == nu.position.x < Px(ExitX)

\* line 143 for every particle
Stepped(ns) == [i \in 1 .. Len(ns) |-> propagate(ns[i], Density(ns[i]))]

\* the first particle whose propagate raises, 0 if none does
FirstRaising(ns) ==
    IF \E i \in 1 .. Len(ns) : PropagateRaises(ns[i])
    THEN CHOOSE i \in 1 .. Len(ns) :
            /\ PropagateRaises(ns[i])
            /\ \A j \in 1 .. i - 1 : ~PropagateRaises(ns[j])
    ELSE 0

\* the particles as the loop of lines 136-147 leaves them when the k-th
\* propagate raises: those before k stepped, k moved, the rest untouched
PartlyStepped(ns, k) ==
    [i \in 1 .. Len(ns) |->
        IF i < k THEN propagate(ns[i], Density(ns[i]))
        ELSE IF i = k THEN Advance(ns[i])
        ELSE ns[i]]

HexDigit == <<"0", "1", "2", "3", "4", "5", "6", "7",
              "8", "9", "a", "b", "c", "d", "e", "f">>
\* f"{n:02x}" for 0 <= n <= 255
Hex2(n) == HexDigit[(n \div 16) + 1] \o HexDigit[(n % 16) + 1]

\* int(prob * 255), lines 165-167
Channel(prob) ==
    (255 * (prob \div ProbRoot) + (255 * (prob % ProbRoot)) \div ProbRoot)
        \div ProbRoot

\* line 170
Color(nu) ==
    "#" \o Hex2(Channel(nu.probs[1])) \o Hex2(Channel(nu.probs[2]))
        \o Hex2(Channel(nu.probs[3]))

\* lines 155-186 with one marker size too many
PacketExtraSize(t, ns, energy) ==
    [tick |-> t,
     agents |-> [x |-> [i \in 1 .. Len(ns) |-> ns[i].position.x],
                 y |-> [i \in 1 .. Len(ns) |-> ns[i].position.y],
                 color |-> [i \in 1 .. Len(ns) |-> Color(ns[i])],
                 size |-> [i \in 1 .. Len(ns) + 1 |-> MarkerSize],
                 outline_color |-> [i \in 1 .. Len(ns) |-> "#FFFFFF"]],
     metrics |-> [avg_energy |-> energy, count |-> Len(ns)]]

\* lines 155-186
Packet(t, ns, energy) ==
    [tick |-> t,
     agents |-> [x |-> [i \in 1 .. Len(ns) |-> ns[i].position.x],
                 y |-> [i \in 1 .. Len(ns) |-> ns[i].position.y],
                 color |-> [i \in 1 .. Len(ns) |-> Color(ns[i])],
                 size |-> [i \in 1 .. Len(ns) |-> MarkerSize],
                 outline_color |-> [i \in 1 .. Len(ns) |-> "#FFFFFF"]],
     metrics |-> [avg_energy |-> energy, count |-> Len(ns)]]

(***************************************************************************)
(* State                                                                   *)
(***************************************************************************)
VARIABLES
    param_q,             \* control queue: the messages put and not taken,
                         \*                oldest first
    param_n,             \* control queue: how many of them are in the pipe
    data_q,              \* frame queue: the snapshots put and not taken,
                         \*              oldest first
    data_n,              \* frame queue: how many of them are in the pipe
    running,             \* simulation_process locals
    energy_beam,
    neutrinos,
    particle_id_counter,
    tick,
    pc,                  \* "drain"  in the loop of lines 106-116
                         \* "body"   at line 118, the drain has met Empty
                         \* "dead"   the loop was left at line 194
    rng,                 \* position of np.random in its stream
    vdata,               \* update(): `data`, <<>> for None
    agent_source,        \* update(): agent_source.data
    seen,                \* history: ticks of the snapshots taken so far
                         \*          by the update in progress, oldest first
    shown,               \* history: tick of the snapshot agent_source
                         \*          shows, -1 before the first
    taken,               \* history: number of messages the current drain
                         \*          has taken
    drained,             \* history: the START and STOP commands among them,
                         \*          oldest first
    runAtDrain,          \* history: running when the current drain began
    started,             \* history: a START command has been applied
    culled,              \* history: particles the last tick removed,
                         \*          as they were after their step
    sim_running,         \* simulation_app: st.session_state.sim_running
    beam_energy,         \* simulation_app: the value of the slider
    p_sim,               \* simulation_app: engine processes the session has
                         \*                 started
    p_vis,               \* simulation_app: renderer processes the session
                         \*                 has started
    script,              \* simulation_app: "idle"    no run of the script
                         \*                 "line41", "line42", "line43"
                         \*                           a run is at that line
                         \*                 "update"  a run is at line 50
    starts,              \* history: START commands the session has put
    presses              \* history: the buttons pressed in the session,
                         \*          oldest first

vars == <<param_q, param_n, data_q, data_n, running, energy_beam, neutrinos,
          particle_id_counter, tick, pc, rng, vdata, agent_source,
          seen, shown, taken, drained, runAtDrain, started, culled,
          sim_running, beam_energy, p_sim, p_vis, script, starts, presses>>

engineVars == <<running, energy_beam, neutrinos, particle_id_counter,
                tick, pc, rng>>
historyVars == <<taken, drained, runAtDrain, started, culled>>
rendererVars == <<vdata, agent_source, seen, shown>>
uiVars == <<sim_running, beam_energy, p_sim, p_vis, script, starts, presses>>

\* line 99 starting in Running
InitRunningTrue == TRUE

\* line 99
InitRunning == FALSE

\* the locals of simulation_process at line 103 and the renderer showing
\* nothing, with `queued` on param_q and np.random at one of `seeds`
InitWith(queued, seeds) ==
    /\ param_q = queued
    /\ param_n = 0
    /\ data_q = << >>
    /\ data_n = 0
    /\ running = InitRunning
    /\ energy_beam = DefaultBeamEnergy
    /\ neutrinos = << >>
    /\ particle_id_counter = 0
    /\ tick = 0
    /\ pc = "drain"
    /\ rng \in seeds
    /\ vdata = << >>
    /\ agent_source = [x |-> << >>, y |-> << >>, color |-> << >>,
                       size |-> << >>]
    /\ seen = << >>
    /\ shown = -1
    /\ taken = 0
    /\ drained = << >>
    /\ runAtDrain = InitRunning
    /\ started = FALSE
    /\ culled = << >>

\* simulation_app.py lines 11-14 and 32: the session before any press
UIFresh ==
    /\ sim_running = FALSE
    /\ beam_energy = DefaultBeamEnergy
    /\ p_sim = 0
    /\ p_vis = 0
    /\ script = "idle"
    /\ starts = 0
    /\ presses = << >>

\* the engine as constructed: nothing was sent yet
Init == InitWith(<< >>, {0}) /\ UIFresh

\* Queue.put: multiprocessing.Queue() is unbounded and first-in first-out;
\* the item is not in the pipe yet
Put(q, item) == Append(q, item)

\* param_q's feeder thread writes the oldest message not yet written to
\* the pipe, where param_q.get_nowait() of line 108 finds it
ParamFeed ==
    /\ param_n < Len(param_q)
    /\ param_n' = param_n + 1
    /\ UNCHANGED <<param_q, data_q, data_n, engineVars, rendererVars, uiVars,
                   historyVars>>

\* data_q's feeder thread writes the oldest snapshot not yet written to the
\* pipe, where data_q.get_nowait() of visualizer.py line 79 finds it; at
\* most `unread` snapshots reach one call of update()
DataFeed(unread) ==
    /\ data_n < Len(data_q)
    /\ data_n + Len(seen) < unread
    /\ data_n' = data_n + 1
    /\ UNCHANGED <<param_q, param_n, data_q, engineVars, rendererVars, uiVars,
                   historyVars>>

(***************************************************************************)
(* The environment: any process holding param_q puts a message, up to      *)
(* `room` messages within one iteration of the engine loop                 *)
(***************************************************************************)
Send(msg, room) ==
    /\ Len(param_q) + taken < room
    /\ param_q' = Put(param_q, msg)
    /\ UNCHANGED <<param_n, data_q, data_n, engineVars, rendererVars, uiVars,
                   historyVars>>

(***************************************************************************)
(* simulation_process                                                      *)
(***************************************************************************)
\* lines 108-116 with `except Exception: pass` around the handling: the
\* message that raises is dropped and the drain goes on
DrainMessageSwallows ==
    /\ pc = "drain"
    /\ param_n > 0
    /\ LET msg == Head(param_q)
       IN  /\ param_q' = Tail(param_q)
           /\ param_n' = param_n - 1
           /\ taken' = taken + 1
           /\ drained' = IF msg.kind = "dict" /\ msg.command \in {"START", "STOP"}
                         THEN Append(drained, msg.command)
                         ELSE drained
           /\ running' = ApplyCommand(msg, running)
           /\ started' = (started \/ (msg.kind = "dict" /\ msg.command = "START"))
           /\ IF HandleRaises(msg)
              THEN /\ pc' = "drain"
                   /\ UNCHANGED energy_beam
              ELSE /\ pc' = "drain"
                   /\ energy_beam' = ApplyParams(msg, energy_beam)
    /\ UNCHANGED <<data_q, data_n, neutrinos, particle_id_counter, tick, rng,
                   rendererVars, uiVars, runAtDrain, culled>>

\* lines 108-114: get_nowait returns a message and it is handled
DrainMessage ==
    /\ pc = "drain"
    /\ param_n > 0
    /\ LET msg == Head(param_q)
       IN  /\ param_q' = Tail(param_q)
           /\ param_n' = param_n - 1
           /\ taken' = taken + 1
           /\ drained' = IF msg.kind = "dict" /\ msg.command \in {"START", "STOP"}
                         THEN Append(drained, msg.command)
                         ELSE drained
           /\ running' = ApplyCommand(msg, running)
           /\ started' = (started \/ (msg.kind = "dict" /\ msg.command = "START"))
           /\ IF HandleRaises(msg)
              THEN /\ pc' = "dead"
                   /\ UNCHANGED energy_beam
              ELSE /\ pc' = "drain"
                   /\ energy_beam' = ApplyParams(msg, energy_beam)
    /\ UNCHANGED <<data_q, data_n, neutrinos, particle_id_counter, tick, rng,
                   rendererVars, uiVars, runAtDrain, culled>>

\* lines 115-116: get_nowait raises queue.Empty, the pipe holds nothing
DrainEmpty ==
    /\ pc = "drain"
    /\ param_n = 0
    /\ pc' = "body"
    /\ UNCHANGED <<param_q, param_n, data_q, data_n, running, energy_beam, neutrinos,
                   particle_id_counter, tick, rng, rendererVars, uiVars,
                   historyVars>>

\* lines 118-120 with the simulation reset while Stopped
IdleResets ==
    /\ pc = "body"
    /\ ~running
    /\ pc' = "drain"
    /\ taken' = 0
    /\ drained' = << >>
    /\ runAtDrain' = running
    /\ neutrinos' = << >>
    /\ particle_id_counter' = 0
    /\ tick' = 0
    /\ UNCHANGED <<param_q, param_n, data_q, data_n, running, energy_beam,
                   rng, rendererVars,
                   uiVars, started, culled>>

\* lines 118-120
Idle ==
    /\ pc = "body"
    /\ ~running
    /\ pc' = "drain"
    /\ taken' = 0
    /\ drained' = << >>
    /\ runAtDrain' = running
    /\ UNCHANGED <<param_q, param_n, data_q, data_n, running, energy_beam,
                   neutrinos,
                   particle_id_counter, tick, rng, rendererVars, uiVars,
                   started, culled>>

\* lines 122-190 with a look at param_q first: the tick is given up when a
\* STOP is waiting
TickCancelled(limit, unread) ==
    /\ pc = "body"
    /\ running
    /\ tick < limit
    /\ Len(data_q) < unread
    /\ IF param_n > 0 /\ Head(param_q) = STOP
       THEN /\ pc' = "drain"
            /\ UNCHANGED <<data_q, neutrinos, particle_id_counter, tick,
                           rng, culled>>
       ELSE
       LET emit == EmitGuard(neutrinos, tick)
           draw == Stream[rng + 1]
           ns   == IF emit
                   THEN Append(neutrinos,
                               Emitted(particle_id_counter, energy_beam, draw))
                   ELSE neutrinos
           k    == FirstRaising(ns)
           all  == Stepped(ns)
           surviving_neutrinos == SelectSeq(all, Survives)
       IN  /\ particle_id_counter' =
                  IF emit THEN particle_id_counter + 1 ELSE particle_id_counter
           /\ rng' = IF emit THEN (rng + 1) % Len(Stream) ELSE rng
           /\ IF k /= 0
              THEN \* propagate raised: lines 192-194
                   /\ neutrinos' = PartlyStepped(ns, k)
                   /\ pc' = "dead"
                   /\ UNCHANGED <<data_q, tick, culled>>
              ELSE /\ neutrinos' = surviving_neutrinos
                   /\ culled' = SelectSeq(all, LAMBDA nu : ~Survives(nu))
                   /\ data_q' = Put(data_q,
                          Packet(tick, surviving_neutrinos, energy_beam))
                   /\ tick' = tick + 1
                   /\ pc' = "drain"
    /\ taken' = 0
    /\ drained' = << >>
    /\ runAtDrain' = running
    /\ UNCHANGED <<param_q, param_n, data_n, running, energy_beam,
                   rendererVars, uiVars, started>>

\* lines 122-190: one running tick, up to `limit` ticks and while fewer
\* than `unread` snapshots are unread
Tick(limit, unread) ==
    /\ pc = "body"
    /\ running
    /\ tick < limit
    /\ Len(data_q) < unread
    /\ LET emit == EmitGuard(neutrinos, tick)
           draw == Stream[rng + 1]
           ns   == IF emit
                   THEN Append(neutrinos,
                               Emitted(particle_id_counter, energy_beam, draw))
                   ELSE neutrinos
           k    == FirstRaising(ns)
           all  == Stepped(ns)
           surviving_neutrinos == SelectSeq(all, Survives)
       IN  /\ particle_id_counter' =
                  IF emit THEN particle_id_counter + 1 ELSE particle_id_counter
           /\ rng' = IF emit THEN (rng + 1) % Len(Stream) ELSE rng
           /\ IF k /= 0
              THEN \* propagate raised: lines 192-194
                   /\ neutrinos' = PartlyStepped(ns, k)
                   /\ pc' = "dead"
                   /\ UNCHANGED <<data_q, tick, culled>>
              ELSE /\ neutrinos' = surviving_neutrinos
                   /\ culled' = SelectSeq(all, LAMBDA nu : ~Survives(nu))
                   /\ data_q' = Put(data_q,
                          Packet(tick, surviving_neutrinos, energy_beam))
                   /\ tick' = tick + 1
                   /\ pc' = "drain"
    /\ taken' = 0
    /\ drained' = << >>
    /\ runAtDrain' = running
    /\ UNCHANGED <<param_q, param_n, data_n, running, energy_beam,
                   rendererVars, uiVars, started>>

(***************************************************************************)
(* visualizer.update                                                       *)
(***************************************************************************)
\* lines 79-80 with the first snapshot taken kept in `data`
VisGetKeepsFirst ==
    /\ data_n > 0
    /\ vdata' = IF vdata = << >> THEN <<Head(data_q)>> ELSE vdata
    /\ data_q' = Tail(data_q)
    /\ data_n' = data_n - 1
    /\ seen' = Append(seen, Head(data_q).tick)
    /\ UNCHANGED <<param_q, param_n, engineVars, uiVars, agent_source, shown,
                   historyVars>>

\* lines 79-80: get_nowait returns a snapshot
VisGet ==
    /\ data_n > 0
    /\ vdata' = <<Head(data_q)>>
    /\ data_q' = Tail(data_q)
    /\ data_n' = data_n - 1
    /\ seen' = Append(seen, Head(data_q).tick)
    /\ UNCHANGED <<param_q, param_n, engineVars, uiVars, agent_source, shown,
                   historyVars>>

\* lines 81-93: get_nowait raises queue.Empty, the pipe holds nothing; the
\* last snapshot taken (if any) is shown
VisRender ==
    /\ data_n = 0
    /\ IF vdata /= << >>
       THEN /\ agent_source' = [x |-> vdata[1].agents.x,
                                y |-> vdata[1].agents.y,
                                color |-> vdata[1].agents.color,
                                size |-> vdata[1].agents.size]
            /\ shown' = vdata[1].tick
       ELSE UNCHANGED <<agent_source, shown>>
    /\ vdata' = << >>
    /\ seen' = << >>
    /\ UNCHANGED <<param_q, param_n, data_q, data_n, engineVars, uiVars,
                   historyVars>>

(***************************************************************************)
(* Spec: the engine under any sequence of control messages                 *)
(***************************************************************************)
Next ==
    \/ \E msg \in Msgs : Send(msg, MaxQueue)
    \/ DrainMessage
    \/ DrainEmpty
    \/ Idle
    \/ Tick(MaxTick, MaxUnread)
    \/ ParamFeed
    \/ DataFeed(MaxUnread)
    \/ VisGet
    \/ VisRender

Spec == Init /\ [][Next]_vars

(***************************************************************************)
(* SpecBeam: the engine over a long run, under the messages of a beam at   *)
(* the default energy of the slider: START, STOP and the beam energy, each *)
(* put on its own by a process holding param_q, at any point of the run,   *)
(* and the renderer's updates beside it.                                   *)
(***************************************************************************)
\* the messages simulation_app.py puts with the slider at its default
BeamMsgs == {START, STOP, BeamMsg(DefaultBeamEnergy)}

\* the engine as constructed, nothing sent yet, np.random at one of Seeds
InitBeam == InitWith(<< >>, Seeds) /\ UIFresh

NextBeam ==
    \/ \E msg \in BeamMsgs : Send(msg, BeamQueue)
    \/ Idle
    \/ DrainMessage
    \/ DrainEmpty
    \/ Tick(RunTicks, BeamUnread)
    \/ ParamFeed
    \/ DataFeed(BeamUnread)
    \/ VisGet
    \/ VisRender

SpecBeam == InitBeam /\ [][NextBeam]_vars

(***************************************************************************)
(* SpecCull: the step and the test of the exit (lines 136-147) on one      *)
(* particle.  The engine is at line 122 of a running iteration that emits  *)
(* nothing, and its one live particle is a Neutrino constructed at         *)
(* x = 846.0, 846.1, ... px, y = 300 px, with one of the velocities of     *)
(* Stream; the tick steps it once and tests it.                            *)
(***************************************************************************)
\* the x of the particle before its step, in 1/PosScale px
CullFrom == {Px(846) + k * (PosScale \div 10) : k \in 0 .. CullPlaces}

\* the tick of the iteration: line 123 emits nothing at it
CullTick == 262

InitCull ==
    /\ \E x \in CullFrom : \E i \in 1 .. Len(Stream) :
          neutrinos = << Neutrino(0, Vector2D(x, Px(300)), DefaultBeamEnergy,
                                  "electron", Stream[i].dir) >>
    /\ particle_id_counter = 1
    /\ tick = CullTick
    /\ running = TRUE
    /\ pc = "body"
    /\ runAtDrain = TRUE
    /\ started = TRUE
    /\ energy_beam = DefaultBeamEnergy
    /\ rng = 0
    /\ param_q = << >>
    /\ param_n = 0
    /\ data_q = << >>
    /\ data_n = 0
    /\ vdata = << >>
    /\ agent_source = [x |-> << >>, y |-> << >>, color |-> << >>,
                       size |-> << >>]
    /\ seen = << >>
    /\ shown = -1
    /\ taken = 0
    /\ drained = << >>
    /\ culled = << >>
    /\ UIFresh

NextCull == Tick(RunTicks, BeamUnread)

SpecCull == InitCull /\ [][NextCull]_vars

(***************************************************************************)
(* SpecUI: the whole program.  One session of simulation_app.py, whose     *)
(* script runs once for every press of a button or move of the slider, and *)
(* the engine and the renderer once the session has started them.          *)
(*                                                                         *)
(* A run of the script with "Start Beam" pressed for the first time is     *)
(* five steps: the widgets, the test of line 37 and p_sim.start()          *)
(* (line 40), p_vis.start() (line 41), sim_running = True (line 42), the   *)
(* put of START (line 43), the live update (lines 50-51).  Every other run *)
(* is two steps: the widgets and the button branches (lines 32-46), then   *)
(* the live update.  The engine runs from line 40 on and the renderer from *)
(* line 41 on, between the steps of the script, and so do the feeder       *)
(* threads of the queues.  The model takes a press or a move when the run  *)
(* before it has ended.                                                    *)
(***************************************************************************)
\* values of the slider (100.0 to 5000.0 in steps of 100.0)
SliderValues == {100, DefaultBeamEnergy}

\* lines 36-40 without the test of sim_running
StartBeamNoGuard ==
    /\ script = "idle"
    /\ Len(presses) < MaxPresses
    /\ Len(param_q) + taken < MaxQueue
    /\ presses' = Append(presses, "start")
    /\ p_sim' = p_sim + 1
    /\ script' = "line41"
    /\ UNCHANGED <<p_vis, sim_running, starts, beam_energy, param_q, param_n,
                   data_q, data_n, engineVars, rendererVars, historyVars>>

\* a run of the script with "Start Beam" pressed, lines 36-40: the test of
\* sim_running and, when it is not set, p_sim.start(); the run is then at
\* line 41, otherwise at line 50
StartBeam ==
    /\ script = "idle"
    /\ Len(presses) < MaxPresses
    /\ Len(param_q) + taken < MaxQueue
    /\ presses' = Append(presses, "start")
    /\ IF ~sim_running
       THEN /\ p_sim' = p_sim + 1
            /\ script' = "line41"
       ELSE /\ p_sim' = p_sim
            /\ script' = "update"
    /\ UNCHANGED <<p_vis, sim_running, starts, beam_energy, param_q, param_n,
                   data_q, data_n, engineVars, rendererVars, historyVars>>

\* line 41: p_vis.start()
StartRenderer ==
    /\ script = "line41"
    /\ p_vis' = p_vis + 1
    /\ script' = "line42"
    /\ UNCHANGED <<p_sim, sim_running, starts, presses, beam_energy, param_q,
                   param_n, data_q, data_n, engineVars, rendererVars,
                   historyVars>>

\* line 42: st.session_state.sim_running = True
SetRunning ==
    /\ script = "line42"
    /\ sim_running' = TRUE
    /\ script' = "line43"
    /\ UNCHANGED <<p_sim, p_vis, starts, presses, beam_energy, param_q,
                   param_n, data_q, data_n, engineVars, rendererVars,
                   historyVars>>

\* line 43: param_q.put({'command': 'START'}); the run is then at line 50
PutStart ==
    /\ script = "line43"
    /\ param_q' = Put(param_q, START)
    /\ starts' = starts + 1
    /\ script' = "update"
    /\ UNCHANGED <<p_sim, p_vis, sim_running, presses, beam_energy, param_n,
                   data_q, data_n, engineVars, rendererVars, historyVars>>

\* a run of the script with "Stop Beam" pressed, up to line 47:
\* lines 45-46
StopBeam ==
    /\ script = "idle"
    /\ Len(presses) < MaxPresses
    /\ Len(param_q) + taken < MaxQueue
    /\ presses' = Append(presses, "stop")
    /\ script' = "update"
    /\ param_q' = Put(param_q, STOP)
    /\ UNCHANGED <<sim_running, beam_energy, p_sim, p_vis, starts, param_n,
                   data_q, data_n, engineVars, rendererVars, historyVars>>

\* a run of the script with the slider moved to e, up to line 47: line 32
MoveSlider(e) ==
    /\ script = "idle"
    /\ e /= beam_energy
    /\ Len(param_q) + taken < MaxQueue
    /\ beam_energy' = e
    /\ script' = "update"
    /\ UNCHANGED <<sim_running, p_sim, p_vis, starts, presses, param_q,
                   param_n, data_q, data_n, engineVars, rendererVars,
                   historyVars>>

\* the end of every run of the script, lines 50-51: the value of the
\* slider is put once the session has started the engine
LiveUpdate ==
    /\ script = "update"
    /\ script' = "idle"
    /\ param_q' = IF sim_running
                  THEN Put(param_q, BeamMsg(beam_energy))
                  ELSE param_q
    /\ UNCHANGED <<sim_running, beam_energy, p_sim, p_vis, starts, presses,
                   param_n, data_q, data_n, engineVars, rendererVars,
                   historyVars>>

\* the engine runs once p_sim.start() (line 40) has started it, the
\* renderer once p_vis.start() (line 41) has
NextUI ==
    \/ StartBeam
    \/ StartRenderer
    \/ SetRunning
    \/ PutStart
    \/ StopBeam
    \/ \E e \in SliderValues : MoveSlider(e)
    \/ LiveUpdate
    \/ p_sim > 0 /\ DrainMessage
    \/ p_sim > 0 /\ DrainEmpty
    \/ p_sim > 0 /\ Idle
    \/ p_sim > 0 /\ Tick(MaxTick, MaxUnread)
    \/ ParamFeed
    \/ DataFeed(MaxUnread)
    \/ p_vis > 0 /\ VisGet
    \/ p_vis > 0 /\ VisRender

SpecUI == Init /\ [][NextUI]_vars

(***************************************************************************)
(* SpecLive: SpecBeam with the progress the engine makes by itself: an     *)
(* iteration that has come to line 122 with the beam running goes through  *)
(* the tick (nothing in lines 122-190 waits for another process, and       *)
(* time.sleep returns).  Nothing is assumed of the producers of param_q,   *)
(* of the feeder threads or of the renderer.                               *)
(***************************************************************************)
\* a running tick can be taken: Tick(RunTicks, BeamUnread) is enabled
TickEnabled ==
    pc = "body" /\ running /\ tick < RunTicks /\ Len(data_q) < BeamUnread

\* Weak fairness of the tick, stated on TickEnabled: a Tick step ends with
\* pc at "drain" or "dead", where TickEnabled is false, and no other step
\* makes it false, so WF_vars(Tick(RunTicks, BeamUnread)) is
\* []<>~TickEnabled.
Fairness == []<>~TickEnabled

SpecLive == InitBeam /\ [][NextBeam]_vars /\ Fairness

TypeOK ==
    /\ pc \in {"drain", "body", "dead"}
    /\ running \in BOOLEAN
    /\ tick \in Nat
    \* a run of the script begins with param_q below MaxQueue and puts up
    \* to two messages
    /\ Len(param_q) <= MaxQueue + 1
    /\ param_n \in 0 .. Len(param_q)
    /\ data_n \in 0 .. Len(data_q)
    /\ sim_running \in BOOLEAN
    /\ script \in {"idle", "line41", "line42", "line43", "update"}
    /\ p_sim \in Nat /\ p_vis \in Nat /\ starts \in Nat

(***************************************************************************)
(* Properties                                                              *)
(***************************************************************************)
Ids(ns) == {ns[i].id : i \in 1 .. Len(ns)}
Last(q) == q[Len(q)]
\* the step is a completed running tick
TickStep == tick' = tick + 1

\* C1: in every reachable state of the engine loop the number of live
\* particles is at most 150.
C1_PopulationBound == Len(neutrinos) <= MaxPopulation

\* the beam has run long enough for the population to level off under
\* culling
C1_Witness ==
    /\ tick >= 265
    /\ Len(neutrinos) >= 50
    /\ particle_id_counter > Len(neutrinos)

\* C2: data_q never holds more than one unread snapshot.
C2_AtMostOneUnread == Len(data_q) <= 1

\* the messages C3 calls malformed or unknown
C3_Malformed(msg) == msg \in MalformedMsgs

\* C3: a malformed or unknown control message is ignored when drained: the
\* loop is not left and running, energy_beam, neutrinos and tick keep their
\* values.
C3_MalformedIgnored ==
    [][(/\ pc = "drain"
        /\ param_q /= << >>
        /\ param_q' = Tail(param_q)
        /\ C3_Malformed(Head(param_q)))
       => (/\ pc' /= "dead"
           /\ UNCHANGED <<running, energy_beam, neutrinos, tick>>)]_vars

\* C4: during and after a drain, running is what the last START or STOP
\* taken by that drain says, and what it was before the drain if none was
\* taken; STOP followed by START leaves the engine running.
C4_LastCommandWins ==
    pc \in {"drain", "body"} =>
        /\ drained = << >> => running = runAtDrain
        /\ drained /= << >> => running = (Last(drained) = "START")

\* a drain that began in Running took STOP and then START
C4_Witness ==
    /\ pc = "body"
    /\ runAtDrain
    /\ drained = <<"STOP", "START">>
    /\ running

\* C5: the engine starts Stopped; nothing is emitted, stepped or published
\* before a START is applied, and a loop iteration taken while Stopped
\* changes neither the particles, the id counter, the tick nor data_q.
C5_StoppedDoesNothing ==
    /\ [](~started =>
            /\ ~running
            /\ tick = 0
            /\ particle_id_counter = 0
            /\ neutrinos = << >>
            /\ data_q = << >>
            /\ vdata = << >>)
    /\ [][(pc = "body" /\ ~running /\ pc' /= pc) =>
            /\ pc' = "drain"
            /\ UNCHANGED <<neutrinos, particle_id_counter, tick, data_q,
                           running, energy_beam>>]_vars

\* a Stopped iteration was just taken by an engine that holds particles
C5_Witness ==
    /\ pc = "drain"
    /\ drained = << >>
    /\ ~runAtDrain
    /\ ~running
    /\ started
    /\ tick > 0
    /\ neutrinos /= << >>

\* C6: a step creates at most one particle, and creates one only at a tick
\* that is a multiple of 5 with fewer than 150 live particles.
C6_EmissionOnInterval ==
    [][LET created == particle_id_counter' - particle_id_counter
           fresh == Ids(neutrinos') \ Ids(neutrinos)
       IN  /\ created \in {0, 1}
           /\ Cardinality(fresh) = created
           /\ Len(neutrinos') <= Len(neutrinos) + created
           /\ created = 1 =>
                /\ tick % EmissionInterval = 0
                /\ Len(neutrinos) < MaxPopulation]_vars

\* the third particle was created at tick 10
C6_Witness ==
    /\ tick = 11
    /\ particle_id_counter = 3
    /\ Len(neutrinos) = 3

\* C7: after N completed ticks with nothing culled and fewer than 150 live
\* particles, ceil(N/5) particles exist, with ids 0 .. ceil(N/5)-1 in
\* emission order: one (id 0) after 5 ticks, six (ids 0-5) after 30.
C7_EmissionCount ==
    (/\ pc /= "dead"
     /\ Len(neutrinos) = particle_id_counter
     /\ Len(neutrinos) < MaxPopulation)
    => /\ Len(neutrinos) = (tick + EmissionInterval - 1) \div EmissionInterval
       /\ \A i \in 1 .. Len(neutrinos) : neutrinos[i].id = i - 1
       /\ tick = 5 => Len(neutrinos) = 1
       /\ tick = 30 => Len(neutrinos) = 6

\* 30 ticks completed, six particles, none culled
C7_Witness ==
    /\ tick = 30
    /\ particle_id_counter = 6
    /\ [i \in 1 .. Len(neutrinos) |-> neutrinos[i].id] = <<0, 1, 2, 3, 4, 5>>

C9_InMatter(x) ==
    Px(matter_start_x) < x /\ x < Px(matter_start_x + matter_width)

\* the place, among the live particles, of a particle of the next state
\* before its step; 0 for a particle the step emitted
C9_PreIndex(nu) ==
    IF nu.id \in Ids(neutrinos)
    THEN (CHOOSE i \in 1 .. Len(neutrinos) :
            neutrinos[i].id = nu.id) 
    ELSE 0

\* C9: after a tick a particle (kept or removed by the tick) whose
\* position.x before the step was strictly between 400 and 500 has flavor
\* [1, 0, 0]; any other has the phase-based flavor of its accumulated path
\* length, which every step increases, inside the region and outside.
C9_MatterClamp ==
    [][TickStep =>
        \A j \in 1 .. Len(neutrinos') + Len(culled') :
            LET post == (neutrinos' \o culled')[j]
                k == C9_PreIndex(post)
                preX == IF k = 0 THEN Px(StartX) ELSE neutrinos[k].position.x
                preL == IF k = 0 THEN 0 ELSE neutrinos[k].distance_traveled
            IN  /\ C9_InMatter(preX) => post.probs = <<ProbScale, 0, 0>>
                /\ ~C9_InMatter(preX) =>
                      post.probs = PhaseProbs(post.distance_traveled,
                                              post.energy)
                /\ post.distance_traveled
                      = preL + magnitude(post.velocity) * DtMillis]_vars

\* one particle is clamped inside the region while another, past the
\* region, oscillates again on its whole path length
C9_Witness ==
    \E i, j \in 1 .. Len(neutrinos) :
        /\ C9_InMatter(neutrinos[j].position.x
                          - neutrinos[j].velocity.x * DtMillis)
        /\ neutrinos[j].probs = <<ProbScale, 0, 0>>
        /\ neutrinos[i].position.x - neutrinos[i].velocity.x * DtMillis
              > Px(matter_start_x + matter_width)
        /\ neutrinos[i].probs /= <<ProbScale, 0, 0>>
        /\ neutrinos[i].probs
              = PhaseProbs(neutrinos[i].distance_traveled, neutrinos[i].energy)

C10_WellFormed(p) ==
    /\ Len(p.agents.x) = p.metrics.count
    /\ Len(p.agents.y) = p.metrics.count
    /\ Len(p.agents.color) = p.metrics.count
    /\ Len(p.agents.size) = p.metrics.count
    /\ \A i \in 1 .. Len(p.agents.size) : p.agents.size[i] = MarkerSize

\* C10: every published snapshot has x, y, color and size of length
\* metrics.count, every size is 6, and the snapshot a tick publishes lists
\* the particles live after that tick's culling, in emission order.
C10_SnapshotWellFormed ==
    /\ [](/\ \A i \in 1 .. Len(data_q) : C10_WellFormed(data_q[i])
          /\ \A i \in 1 .. Len(vdata) : C10_WellFormed(vdata[i]))
    /\ [][TickStep =>
            LET p == Last(data_q')
            IN  /\ C10_WellFormed(p)
                /\ p.metrics.count = Len(neutrinos')
                /\ \A i \in 1 .. Len(neutrinos') :
                      /\ p.agents.x[i] = neutrinos'[i].position.x
                      /\ p.agents.y[i] = neutrinos'[i].position.y
                      /\ p.agents.color[i] = Color(neutrinos'[i])
                      /\ i > 1 => neutrinos'[i - 1].id < neutrinos'[i].id]_vars

\* the unread snapshot of a tick that culled a particle lists the survivors
C10_Witness ==
    /\ data_q /= << >>
    /\ culled /= << >>
    /\ Last(data_q).tick = tick - 1
    /\ Last(data_q).metrics.count = Len(neutrinos)
    /\ Len(Last(data_q).agents.color) >= 2

\* round(prob * 255), halves upwards, clamped to [0, 255]
C11_Rounded(prob) ==
    LET r == (255 * (prob \div ProbRoot) + ProbRoot \div 2
                + (255 * (prob % ProbRoot)) \div ProbRoot) \div ProbRoot
    IN  IF r < 0 THEN 0 ELSE IF r > 255 THEN 255 ELSE r

C11_RoundedColor(nu) ==
    "#" \o Hex2(C11_Rounded(nu.probs[1])) \o Hex2(C11_Rounded(nu.probs[2]))
        \o Hex2(C11_Rounded(nu.probs[3]))

\* C11: the colour a tick publishes for a particle is "#rrggbb" with
\* rr, gg, bb the lowercase hexadecimal of round(p * 255), clamped to
\* [0, 255], for p the electron, muon and tau probability; [1, 0, 0] gives
\* "#ff0000" and [0, 1, 0] gives "#00ff00".
C11_ChannelRounded ==
    [][TickStep =>
        \A i \in 1 .. Len(neutrinos') :
            /\ Last(data_q').agents.color[i] = C11_RoundedColor(neutrinos'[i])
            /\ neutrinos'[i].probs = <<ProbScale, 0, 0>>
                 => Last(data_q').agents.color[i] = "#ff0000"
            /\ neutrinos'[i].probs = <<0, ProbScale, 0>>
                 => Last(data_q').agents.color[i] = "#00ff00"]_vars

\* C12: a step (dt = 0.016 s > 0) leaves a particle's path length strictly
\* greater than before, by |velocity| * dt, and its position displaced by
\* velocity * dt; id, velocity and energy are as before the step, so the
\* path length never decreases over the particle's life.
C12_PathGrows ==
    [][TickStep =>
        /\ Ids(neutrinos) \subseteq Ids(neutrinos' \o culled')
        /\ \A j \in 1 .. Len(neutrinos') + Len(culled') :
            LET post == (neutrinos' \o culled')[j]
                k == C9_PreIndex(post)
                preL == IF k = 0 THEN 0 ELSE neutrinos[k].distance_traveled
                preX == IF k = 0 THEN Px(StartX) ELSE neutrinos[k].position.x
            IN  /\ DtMillis > 0
                /\ post.distance_traveled > preL
                /\ post.distance_traveled - preL
                     = magnitude(post.velocity) * DtMillis
                /\ post.position.x - preX = post.velocity.x * DtMillis
                /\ k /= 0 =>
                     /\ post.position.y - neutrinos[k].position.y
                          = post.velocity.y * DtMillis
                     /\ post.velocity = neutrinos[k].velocity
                     /\ post.energy = neutrinos[k].energy]_vars

\* a particle flying off the axis has been stepped three times
C12_Witness ==
    \E i \in 1 .. Len(neutrinos) :
        LET nu == neutrinos[i]
        IN  /\ nu.velocity.y /= 0
            /\ nu.distance_traveled = 3 * magnitude(nu.velocity) * DtMillis
            /\ nu.position.x = Px(StartX) + 3 * nu.velocity.x * DtMillis

\* C13: ids come from a counter that never decreases: the ids of the live
\* particles are distinct and strictly increasing along the live sequence,
\* every id in use is below the counter, and a particle a step adds has an
\* id at or above the counter, hence above every id given out before,
\* culled or not, whether or not the beam was stopped in between.
C13_IdsNeverReused ==
    /\ [](/\ Cardinality(Ids(neutrinos)) = Len(neutrinos)
          /\ \A i \in 2 .. Len(neutrinos) :
                neutrinos[i - 1].id < neutrinos[i].id
          /\ \A id \in Ids(neutrinos) \cup Ids(culled) :
                id < particle_id_counter)
    /\ [][/\ particle_id_counter' >= particle_id_counter
          /\ \A id \in Ids(neutrinos') \ Ids(neutrinos) :
                /\ id >= particle_id_counter
                /\ id < particle_id_counter']_vars

\* the beam, stopped right after a tick that removed a particle, was
\* started again and goes on with the particles and the counter it had
C13_Witness ==
    /\ pc = "body"
    /\ running
    /\ ~runAtDrain
    /\ drained = <<"START">>
    /\ culled /= << >>
    /\ neutrinos /= << >>
    /\ particle_id_counter > Len(neutrinos) + Len(culled)

\* C14: an update takes the snapshots that have reached it, oldest first,
\* until none is left in the pipe, and then shows the last one it took,
\* which is the newest: every snapshot it took before is dropped unshown; an
\* update that takes none shows nothing new; and the ticks of the snapshots
\* shown increase strictly, whatever the engine publishes in between.
C14_RendersLatest ==
    /\ [](/\ \A i \in 2 .. Len(seen) : seen[i - 1] < seen[i]
          /\ \A i \in 1 .. Len(seen) : shown < seen[i]
          /\ \A i \in 1 .. Len(seen) : \A j \in 1 .. Len(data_q) :
                seen[i] < data_q[j].tick
          /\ vdata /= << >> =>
                (seen /= << >> /\ vdata[1].tick = Last(seen))
          /\ vdata = << >> => seen = << >>)
    /\ [][(vdata' /= vdata /\ vdata' /= << >>) =>
            /\ data_n > 0
            /\ vdata' = <<Head(data_q)>>
            /\ data_q' = Tail(data_q)
            /\ data_n' = data_n - 1
            /\ seen' = Append(seen, Head(data_q).tick)]_vars
    /\ [][(vdata /= << >> /\ vdata' = << >>) =>
            /\ data_n = 0
            /\ shown' = Last(seen)]_vars
    /\ [][(agent_source' /= agent_source \/ shown' /= shown) =>
            /\ data_n = 0
            /\ vdata /= << >>
            /\ shown' = Last(seen)
            /\ shown' > shown
            /\ agent_source' = [x |-> vdata[1].agents.x,
                                y |-> vdata[1].agents.y,
                                color |-> vdata[1].agents.color,
                                size |-> vdata[1].agents.size]]_vars

\* an update has taken the snapshots of ticks 0 and 1, holds that of tick 1
\* and finds nothing more: the snapshot of tick 0 was never shown and is
\* dropped
C14_Witness ==
    /\ seen = <<0, 1>>
    /\ vdata /= << >>
    /\ vdata[1].tick = 1
    /\ data_q = << >>
    /\ data_n = 0
    /\ shown = -1
    /\ agent_source.x = << >>

\* C15: once the drain of an iteration has ended, what waits on param_q has
\* no effect on the iteration: a Running one emits when due, publishes the
\* snapshot of its tick and increments tick (or fails on a particle of
\* energy 0), a Stopped one idles, and param_q and running are left as
\* they are; running changes only when a later drain takes the START or
\* STOP.
C15_NoMidTickCancel ==
    /\ [][(pc = "body" /\ pc' /= "body") =>
            /\ param_q' = param_q
            /\ running' = running
            /\ running =>
                /\ EmitGuard(neutrinos, tick) =>
                      particle_id_counter' = particle_id_counter + 1
                /\ \/ /\ pc' = "dead"
                      /\ \E i \in 1 .. Len(neutrinos') :
                            neutrinos'[i].energy = 0
                   \/ /\ pc' = "drain"
                      /\ tick' = tick + 1
                      /\ Len(data_q') = Len(data_q) + 1
                      /\ Last(data_q').tick = tick
                      /\ Last(data_q').metrics.count = Len(neutrinos')
            /\ ~running =>
                /\ pc' = "drain"
                /\ UNCHANGED <<tick, neutrinos, particle_id_counter,
                               data_q>>]_vars
    /\ [][running' /= running =>
            /\ pc = "drain"
            /\ param_n > 0
            /\ param_q' = Tail(param_q)
            /\ Head(param_q).command
                 = (IF running' THEN "START" ELSE "STOP")]_vars

\* a Running engine has ended the drain of its second iteration and a STOP
\* has arrived since
C15_Witness ==
    /\ pc = "body"
    /\ running
    /\ tick = 1
    /\ taken = 0
    /\ param_n > 0
    /\ Head(param_q) = STOP

\* C16: an exception in the drain or in the tick is fatal.  The step that
\* raises publishes nothing and does not increment tick; a drained message
\* whose handling raises ends the loop, and no engine that is still in its
\* loop holds a particle whose step raises; once the loop is left the
\* engine takes no message from param_q, publishes nothing and changes
\* none of its variables, for ever.
C16_FatalException ==
    /\ [](pc /= "dead" =>
            \A i \in 1 .. Len(neutrinos) : ~PropagateRaises(neutrinos[i]))
    /\ [][(/\ pc = "drain"
           /\ param_q /= << >>
           /\ param_q' = Tail(param_q)
           /\ HandleRaises(Head(param_q))) => pc' = "dead"]_vars
    /\ [][(pc /= "dead" /\ pc' = "dead") =>
            /\ data_q' = data_q
            /\ tick' = tick]_vars
    /\ [][pc = "dead" =>
            /\ pc' = "dead"
            /\ UNCHANGED <<running, energy_beam, neutrinos,
                           particle_id_counter, tick, rng>>
            /\ Len(param_q') >= Len(param_q)
            /\ SubSeq(param_q', 1, Len(param_q)) = param_q
            /\ Len(data_q') <= Len(data_q)]_vars

\* the first tick raised on its particle of energy 0: nothing was ever
\* published and a message put since is left on param_q
C16_Witness ==
    /\ pc = "dead"
    /\ running
    /\ tick = 0
    /\ Len(neutrinos) = 1
    /\ PropagateRaises(neutrinos[1])
    /\ data_q = << >>
    /\ vdata = << >>
    /\ shown = -1
    /\ param_n > 0

\* C17: energy_beam is 500 until a drain takes a beam-energy message, takes
\* the value of each such message, and changes at no other step; that step
\* changes nothing else of the engine.  The particle a tick emits has the
\* energy drawn around the energy_beam of that tick, the snapshot it
\* publishes has avg_energy = energy_beam, and no step changes the energy
\* of a particle that stays live.
C17_BeamEnergyUpdate ==
    /\ energy_beam = DefaultBeamEnergy
    /\ [][(/\ pc = "drain"
           /\ param_q /= << >>
           /\ param_q' = Tail(param_q)
           /\ Head(param_q) \in {BeamMsg(e) : e \in BeamValues})
          => energy_beam' = Head(param_q).value]_vars
    /\ [][energy_beam' /= energy_beam =>
            /\ pc = "drain"
            /\ param_q /= << >>
            /\ param_q' = Tail(param_q)
            /\ energy_beam' = Head(param_q).value
            /\ pc' = "drain"
            /\ UNCHANGED <<running, neutrinos, particle_id_counter, tick,
                           rng, data_q>>]_vars
    /\ [][/\ particle_id_counter' /= particle_id_counter =>
                /\ energy_beam' = energy_beam
                /\ Last(neutrinos').id = particle_id_counter
                /\ Last(neutrinos').energy
                     = Normal(energy_beam, Stream[rng + 1].z)
          /\ TickStep =>
                /\ energy_beam' = energy_beam
                /\ Last(data_q').metrics.avg_energy = energy_beam
          /\ \A i \in 1 .. Len(neutrinos) : \A j \in 1 .. Len(neutrinos') :
                neutrinos[i].id = neutrinos'[j].id
                   => neutrinos[i].energy = neutrinos'[j].energy]_vars

\* the particle was emitted at 500 MeV in tick 0, whose snapshot says 500;
\* the drain of tick 1 took an update to 100 MeV and the snapshot of tick 1
\* says 100 while the particle keeps its 500
C17_Witness ==
    /\ Len(data_q) = 2
    /\ data_q[1].metrics.avg_energy = DefaultBeamEnergy
    /\ data_q[2].metrics.avg_energy = 100
    /\ energy_beam = 100
    /\ Len(neutrinos) = 1
    /\ neutrinos[1].energy = DefaultBeamEnergy

\* C18: tick starts at 0 and changes only by a running tick, which
\* publishes exactly one snapshot, carrying the tick it started with, and
\* adds 1; so the snapshots published are those of ticks 0, 1, 2, ... in
\* order, each once.  No other step, in particular no STOP, Stopped
\* iteration or START, changes tick, the particles or the id counter: a
\* beam started again goes on from where it was stopped.
C18_TicksConsecutive ==
    /\ tick = 0
    /\ data_q = << >>
    /\ [][/\ tick' /= tick =>
                /\ pc = "body" /\ running
                /\ tick' = tick + 1
          /\ Len(data_q') > Len(data_q) =>
                /\ tick' = tick + 1
                /\ data_q' = Append(data_q, Last(data_q'))
                /\ Last(data_q').tick = tick
          /\ tick' = tick + 1 => Len(data_q') = Len(data_q) + 1]_vars
    /\ [][~(pc = "body" /\ running) =>
            UNCHANGED <<tick, neutrinos, particle_id_counter>>]_vars
    /\ [](\A i \in 1 .. Len(data_q) :
            data_q[i].tick < tick /\ (i > 1 => data_q[i - 1].tick + 1
                                                 = data_q[i].tick))

\* an engine stopped after tick 6 has taken START and is about to run
\* tick 7 with the two particles and the counter it was stopped with
C18_Witness ==
    /\ pc = "body"
    /\ running
    /\ ~runAtDrain
    /\ drained = <<"START">>
    /\ tick = 7
    /\ particle_id_counter = 2
    /\ Len(neutrinos) = 2
    /\ neutrinos[1].id = 0
    /\ neutrinos[1].distance_traveled
          = 7 * magnitude(neutrinos[1].velocity) * DtMillis

Live(id) == id \in Ids(neutrinos)

\* the particles emitted early enough to cross the 840 px to the exit
\* within the RunTicks ticks explored (at most 264 steps each)
C19_EarlyIds == 0 .. (RunTicks - 265) \div EmissionInterval

\* the engine keeps executing running ticks: again and again it is at
\* line 122 with the beam running and room on data_q, until the RunTicks
\* ticks explored are done
C19_KeepsRunning == []<>(TickEnabled \/ tick >= RunTicks)

\* C19: every live particle has a strictly positive x velocity, and if the
\* engine keeps executing running ticks (it does not fail and is not left
\* Stopped for ever) every particle that is live is eventually culled.
C19_EventuallyCulled ==
    /\ [](\A i \in 1 .. Len(neutrinos) : neutrinos[i].velocity.x > 0)
    /\ C19_KeepsRunning => \A id \in C19_EarlyIds : Live(id) ~> ~Live(id)

\* the second particle has just left through the exit
C19_Witness ==
    \E i \in 1 .. Len(culled) :
        /\ culled[i].id = 1
        /\ culled[i].velocity.x > 0
        /\ culled[i].position.x > Px(ExitX)

\* the START commands on a queue
C20_Starts(q) == Len(SelectSeq(q, LAMBDA m : m = START))

C20_Pressed(button) == \E i \in 1 .. Len(presses) : presses[i] = button

\* the "Start Beam" presses of the session
C20_StartPresses == Len(SelectSeq(presses, LAMBDA b : b = "start"))

\* the run of the script in progress is that of the session's first
\* "Start Beam" press
C20_FirstStartRun ==
    /\ script /= "idle"
    /\ presses /= << >>
    /\ Last(presses) = "start"
    /\ C20_StartPresses = 1

====
